---- MODULE Spec2Model ----
(***************************************************************************)
(* Model of the steering-document generator                                *)
(* (steering_generator/generator.py and steering_generator/server.py).     *)
(*                                                                         *)
(* Representation.  A Python str that the code only inspects (names that   *)
(* are searched for substrings, upper/lower-cased, split or sliced) is a   *)
(* sequence of one-character strings.  A Python str that is produced as    *)
(* output is a Text: the non-empty sequence of its lines, i.e. the string  *)
(* split on "\n" (so "a\n" is <<"a", "">> and "" is <<"">>).  A dict is a  *)
(* function whose DOMAIN is the set of keys present.                       *)
(***************************************************************************)
EXTENDS Integers, Sequences, FiniteSets, TLC

VARIABLES
    pc,             \* "start", or the name of the operation that has returned
    var,            \* argument of _get_env_var_description
    analysis,       \* the analysis dict handed to a deriver / the generator
    deep,           \* what the deep-analysis collaborator returns
    output_format,  \* the requested target identifier
    tool_framework, \* the framework argument of the server tools
    ret,            \* the value returned by the operation
    exc             \* "none", or the exception the operation raised

vars == <<pc, var, analysis, deep, output_format, tool_framework, ret, exc>>

-----------------------------------------------------------------------------
(* Python built-ins used by the code *)

UpperLetters == <<"A","B","C","D","E","F","G","H","I","J","K","L","M",
                  "N","O","P","Q","R","S","T","U","V","W","X","Y","Z">>
LowerLetters == <<"a","b","c","d","e","f","g","h","i","j","k","l","m",
                  "n","o","p","q","r","s","t","u","v","w","x","y","z">>

\* str.upper()
Upper(s) ==
    [i \in 1..Len(s) |->
        IF \E k \in 1..26 : LowerLetters[k] = s[i]
        THEN UpperLetters[CHOOSE k \in 1..26 : LowerLetters[k] = s[i]]
        ELSE s[i]]

\* str.lower()
Lower(s) ==
    [i \in 1..Len(s) |->
        IF \E k \in 1..26 : UpperLetters[k] = s[i]
        THEN LowerLetters[CHOOSE k \in 1..26 : UpperLetters[k] = s[i]]
        ELSE s[i]]

\* sub in s
Contains(s, sub) ==
    \E i \in 0..(Len(s) - Len(sub)) : SubSeq(s, i + 1, i + Len(sub)) = sub

\* the characters of s as one output string
Str(s) ==
    LET go[i \in 0..Len(s)] == IF i = 0 THEN "" ELSE go[i - 1] \o s[i]
    IN  go[Len(s)]

\* the empty dict
NoDict == <<>>

\* dict.get(k, default)
Get(d, k, default) == IF k \in DOMAIN d THEN d[k] ELSE default

\* a + b on strings, in the line representation
Cat(a, b) == SubSeq(a, 1, Len(a) - 1) \o <<a[Len(a)] \o b[1]>> \o Tail(b)

\* sep.join(items), items a list of Texts
\* (string concatenation is associative: the items lo..hi are joined by halves)
RECURSIVE JoinRange(_, _, _, _)
JoinRange(sep, items, lo, hi) ==
    IF lo = hi THEN items[lo]
    ELSE LET mid == (lo + hi) \div 2
         IN  Cat(Cat(JoinRange(sep, items, lo, mid), sep),
                 JoinRange(sep, items, mid + 1, hi))

Join(sep, items) ==
    IF items = <<>> THEN <<"">> ELSE JoinRange(sep, items, 1, Len(items))

\* the string "\n"
NL == <<"", "">>

\* the backquote character of the generated markdown (written as an apostrophe:
\* a string literal of this language cannot hold a backquote)
BQ == "'"

-----------------------------------------------------------------------------
(* _get_env_var_description *)

DATABASE_URL == <<"D","A","T","A","B","A","S","E","_","U","R","L">>
NEXT_PUBLIC_SUPABASE_URL == <<"N","E","X","T","_","P","U","B","L","I","C","_","S","U","P","A","B","A","S","E","_","U","R","L">>
NEXT_PUBLIC_SUPABASE_ANON_KEY == <<"N","E","X","T","_","P","U","B","L","I","C","_","S","U","P","A","B","A","S","E","_","A","N","O","N","_","K","E","Y">>
SUPABASE_SERVICE_ROLE_KEY == <<"S","U","P","A","B","A","S","E","_","S","E","R","V","I","C","E","_","R","O","L","E","_","K","E","Y">>
NEXTAUTH_SECRET == <<"N","E","X","T","A","U","T","H","_","S","E","C","R","E","T">>
NEXTAUTH_URL == <<"N","E","X","T","A","U","T","H","_","U","R","L">>
OPENAI_API_KEY == <<"O","P","E","N","A","I","_","A","P","I","_","K","E","Y">>
STRIPE_SECRET_KEY == <<"S","T","R","I","P","E","_","S","E","C","R","E","T","_","K","E","Y">>
STRIPE_PUBLISHABLE_KEY == <<"S","T","R","I","P","E","_","P","U","B","L","I","S","H","A","B","L","E","_","K","E","Y">>

\* the keys of the descriptions table
descriptionKeys ==
    { DATABASE_URL, NEXT_PUBLIC_SUPABASE_URL, NEXT_PUBLIC_SUPABASE_ANON_KEY,
      SUPABASE_SERVICE_ROLE_KEY, NEXTAUTH_SECRET, NEXTAUTH_URL, OPENAI_API_KEY,
      STRIPE_SECRET_KEY, STRIPE_PUBLISHABLE_KEY }

\* descriptions[v]
descriptions(v) ==
    CASE v = DATABASE_URL                  -> "Database connection string"
      [] v = NEXT_PUBLIC_SUPABASE_URL      -> "Supabase project URL"
      [] v = NEXT_PUBLIC_SUPABASE_ANON_KEY -> "Supabase anonymous key (public)"
      [] v = SUPABASE_SERVICE_ROLE_KEY     -> "Supabase service role key (server-only)"
      [] v = NEXTAUTH_SECRET               -> "NextAuth.js secret"
      [] v = NEXTAUTH_URL                  -> "NextAuth.js URL"
      [] v = OPENAI_API_KEY                -> "OpenAI API key"
      [] v = STRIPE_SECRET_KEY             -> "Stripe secret key"
      [] v = STRIPE_PUBLISHABLE_KEY        -> "Stripe publishable key"

W_SUPABASE == <<"S","U","P","A","B","A","S","E">>
W_URL      == <<"U","R","L">>
W_ANON     == <<"A","N","O","N">>
W_SERVICE  == <<"S","E","R","V","I","C","E">>
W_DATABASE == <<"D","A","T","A","B","A","S","E">>
W_DB_      == <<"D","B","_">>
W_API_KEY  == <<"A","P","I","_","K","E","Y">>
W_APIKEY   == <<"A","P","I","K","E","Y">>
W_SECRET   == <<"S","E","C","R","E","T">>

\* mutant: the URL rule tried before the SECRET rule
pattern_description_url_first(var_upper) ==
    IF Contains(var_upper, W_SUPABASE) /\ Contains(var_upper, W_URL)
    THEN "Supabase project URL"
    ELSE IF Contains(var_upper, W_SUPABASE) /\ Contains(var_upper, W_ANON)
    THEN "Supabase anonymous key"
    ELSE IF Contains(var_upper, W_SUPABASE) /\ Contains(var_upper, W_SERVICE)
    THEN "Supabase service role key"
    ELSE IF Contains(var_upper, W_DATABASE) \/ Contains(var_upper, W_DB_)
    THEN "Database connection"
    ELSE IF Contains(var_upper, W_API_KEY) \/ Contains(var_upper, W_APIKEY)
    THEN "API key"
    ELSE IF Contains(var_upper, W_URL)
    THEN "Service URL"
    ELSE IF Contains(var_upper, W_SECRET)
    THEN "Secret key"
    ELSE "Required"

\* the if/elif chain over var_upper, then the default
pattern_description(var_upper) ==
    IF Contains(var_upper, W_SUPABASE) /\ Contains(var_upper, W_URL)
    THEN "Supabase project URL"
    ELSE IF Contains(var_upper, W_SUPABASE) /\ Contains(var_upper, W_ANON)
    THEN "Supabase anonymous key"
    ELSE IF Contains(var_upper, W_SUPABASE) /\ Contains(var_upper, W_SERVICE)
    THEN "Supabase service role key"
    ELSE IF Contains(var_upper, W_DATABASE) \/ Contains(var_upper, W_DB_)
    THEN "Database connection"
    ELSE IF Contains(var_upper, W_API_KEY) \/ Contains(var_upper, W_APIKEY)
    THEN "API key"
    ELSE IF Contains(var_upper, W_SECRET)
    THEN "Secret key"
    ELSE IF Contains(var_upper, W_URL)
    THEN "Service URL"
    ELSE "Required"

_get_env_var_description(v) ==
    IF v \in descriptionKeys
    THEN descriptions(v)
    ELSE pattern_description(Upper(v))

-----------------------------------------------------------------------------
(* Building a document: lines is a list of items, and the document is       *)
(* "\n".join(lines).                                                        *)

\* an item without a newline in it
L(s) == <<s>>

\* an item that ends in "\n"
LN(s) == <<s, "">>

\* the items a loop appends: F(x) for each x of seq, in order
FlatMap(F(_), seq) ==
    LET go[i \in 0..Len(seq)] == IF i = 0 THEN <<>> ELSE go[i - 1] \o F(seq[i])
    IN  go[Len(seq)]

\* sum(1 for x in seq if P(x))
Count(P(_), seq) == Cardinality({ i \in 1..Len(seq) : P(seq[i]) })

\* s.split("/")[-1]
LastSegment(s) ==
    LET cuts == { i \in 1..Len(s) : s[i] = "/" }
        from == IF cuts = {} THEN 1
                ELSE 1 + CHOOSE i \in cuts : \A j \in cuts : j <= i
    IN  SubSeq(s, from, Len(s))

-----------------------------------------------------------------------------
(* FRAMEWORK_NAMES and generate_tech_md *)

\* FRAMEWORK_NAMES.get(framework, framework)
FRAMEWORK_NAMES(framework) ==
    CASE framework = "nextjs"       -> "Next.js 15 (App Router)"
      [] framework = "nextjs-pages" -> "Next.js 15 (Pages Router)"
      [] framework = "laravel"      -> "Laravel 12"
      [] framework = "react"        -> "React 19 (Vite)"
      [] framework = "vue"          -> "Vue.js 3 (Vite)"
      [] framework = "nuxt"         -> "Nuxt 3"
      [] OTHER                      -> framework

\* the keys of FRAMEWORK_NAMES
FrameworkIds == {"nextjs", "nextjs-pages", "laravel", "react", "vue", "nuxt"}

\* deep_analysis.get("categorizedDependencies", {}) or deep_analysis.get("categorizedDeps", {})
categorized_of(deep_analysis) ==
    IF Get(deep_analysis, "categorizedDependencies", NoDict) # NoDict
    THEN deep_analysis["categorizedDependencies"]
    ELSE Get(deep_analysis, "categorizedDeps", NoDict)

\* categorized.get(cat), a falsy value read as the empty list
Category(categorized, cat) == Get(categorized, cat, <<>>)

tech_framework_lines(framework) ==
    <<LN("# Technology Stack"),
      L("This document defines the technology choices for this project. "),
      LN("Use these technologies when generating code and suggestions."),
      LN("## Framework & Runtime"),
      L("- **Framework**: " \o FRAMEWORK_NAMES(framework))>>
    \o (IF framework \in {"nextjs", "nextjs-pages", "react"}
        THEN <<L("- **UI Library**: React 19"),
               L("- **Language**: TypeScript 5"),
               L("- **Runtime**: Node.js 20+")>>
        ELSE IF framework \in {"vue", "nuxt"}
        THEN <<L("- **UI Library**: Vue 3 (Composition API)"),
               L("- **Language**: TypeScript 5"),
               L("- **Runtime**: Node.js 20+")>>
        ELSE IF framework = "laravel"
        THEN <<L("- **Language**: PHP 8.2+"),
               L("- **Runtime**: PHP-FPM / Laravel Octane")>>
        ELSE <<>>)
    \o <<L("")>>

tech_database_dep(dep) ==
    LET purpose == Get(dep, "purpose", "")
        name    == Lower(Get(dep, "name", <<>>))
    IN  IF Contains(name, <<"s","u","p","a","b","a","s","e">>)
        THEN <<L("- **Database**: Supabase (PostgreSQL)"),
               L("- **Auth**: Supabase Auth"),
               L("- **Storage**: Supabase Storage")>>
        ELSE IF Contains(name, <<"p","r","i","s","m","a">>)
        THEN <<L("- **ORM**: Prisma")>>
        ELSE IF Contains(name, <<"d","r","i","z","z","l","e">>)
        THEN <<L("- **ORM**: Drizzle ORM")>>
        ELSE IF purpose # ""
        THEN <<L("- " \o purpose)>>
        ELSE <<>>

tech_database_lines(categorized) ==
    IF Category(categorized, "Database") # <<>>
    THEN <<LN("## Database & Backend")>>
         \o FlatMap(tech_database_dep, categorized["Database"])
         \o <<L("")>>
    ELSE <<>>

\* any("tailwind" in d["name"].lower() for d in categorized["UI & Styling"])
has_tailwind_in(ui) ==
    \E i \in 1..Len(ui) :
        Contains(Lower(ui[i]["name"]), <<"t","a","i","l","w","i","n","d">>)

\* sum(1 for d in categorized["UI & Styling"] if "@radix-ui" in d["name"])
radix_count_in(ui) ==
    LET isRadix(d) == Contains(d["name"], <<"@","r","a","d","i","x","-","u","i">>)
    IN  Count(isRadix, ui)

\* the threshold of (radix_count > 5)
RadixThreshold == 5

\* mutant: radix_count >= 5
radix_lines_ge(radix_count, has_tailwind) ==
    IF radix_count >= RadixThreshold /\ has_tailwind
    THEN <<L("- **Component Library**: shadcn/ui (built on Radix UI)")>>
    ELSE IF radix_count > 0
    THEN <<L("- **UI Primitives**: Radix UI")>>
    ELSE <<>>

radix_lines(radix_count, has_tailwind) ==
    IF radix_count > RadixThreshold /\ has_tailwind
    THEN <<L("- **Component Library**: shadcn/ui (built on Radix UI)")>>
    ELSE IF radix_count > 0
    THEN <<L("- **UI Primitives**: Radix UI")>>
    ELSE <<>>

tech_icon_dep(dep) ==
    IF dep["name"] = <<"l","u","c","i","d","e","-","r","e","a","c","t">>
    THEN <<L("- **Icons**: Lucide React")>>
    ELSE IF dep["name"] = <<"@","h","e","r","o","i","c","o","n","s","/","r","e","a","c","t">>
    THEN <<L("- **Icons**: Heroicons")>>
    ELSE <<>>

tech_font_dep(dep) ==
    IF dep["name"] = <<"g","e","i","s","t">>
    THEN <<L("- **Font**: Geist font family")>>
    ELSE <<>>

\* mutant: the component-library line stands for the CSS Framework line too
tech_ui_lines_single(categorized) ==
    IF Category(categorized, "UI & Styling") # <<>>
    THEN LET ui == categorized["UI & Styling"]
         IN  <<LN("## UI & Styling")>>
             \o (IF has_tailwind_in(ui) /\ ~(radix_count_in(ui) > RadixThreshold)
                 THEN <<L("- **CSS Framework**: Tailwind CSS (utility-first)")>>
                 ELSE <<>>)
             \o radix_lines(radix_count_in(ui), has_tailwind_in(ui))
             \o FlatMap(tech_icon_dep, ui)
             \o FlatMap(tech_font_dep, Category(categorized, "Other"))
             \o <<L("")>>
    ELSE <<>>

tech_ui_lines(categorized) ==
    IF Category(categorized, "UI & Styling") # <<>>
    THEN LET ui == categorized["UI & Styling"]
         IN  <<LN("## UI & Styling")>>
             \o (IF has_tailwind_in(ui)
                 THEN <<L("- **CSS Framework**: Tailwind CSS (utility-first)")>>
                 ELSE <<>>)
             \o radix_lines(radix_count_in(ui), has_tailwind_in(ui))
             \o FlatMap(tech_icon_dep, ui)
             \o FlatMap(tech_font_dep, Category(categorized, "Other"))
             \o <<L("")>>
    ELSE <<>>

\* mutant: Tailwind is looked for in every category
has_tailwind_anywhere(categorized) ==
    \E cat \in DOMAIN categorized : has_tailwind_in(categorized[cat])

\* (has_tailwind if "has_tailwind" in dir() else False): the local exists only
\* when the UI & Styling block ran
has_tailwind_local(categorized) ==
    IF Category(categorized, "UI & Styling") # <<>>
    THEN has_tailwind_in(categorized["UI & Styling"])
    ELSE FALSE

key_lib_forms(dep) ==
    IF LastSegment(dep["name"]) = <<"z","o","d">>
    THEN <<"**Validation**: Zod (schema validation)">>
    ELSE IF Contains(dep["name"], <<"r","e","a","c","t","-","h","o","o","k","-","f","o","r","m">>)
    THEN <<"**Forms**: React Hook Form">>
    ELSE <<>>

key_lib_state(dep) ==
    IF dep["name"] = <<"z","u","s","t","a","n","d">>
    THEN <<"**State Management**: Zustand">>
    ELSE IF dep["name"] = <<"j","o","t","a","i">>
    THEN <<"**State Management**: Jotai (atomic)">>
    ELSE IF Contains(dep["name"], <<"@","r","e","d","u","x","j","s","/","t","o","o","l","k","i","t">>)
    THEN <<"**State Management**: Redux Toolkit">>
    ELSE <<>>

key_lib_fetching(dep) ==
    IF Contains(dep["name"], <<"@","t","a","n","s","t","a","c","k","/","r","e","a","c","t","-","q","u","e","r","y">>)
    THEN <<"**Data Fetching**: TanStack Query">>
    ELSE IF dep["name"] = <<"s","w","r">>
    THEN <<"**Data Fetching**: SWR">>
    ELSE <<>>

key_lib_utilities(dep) ==
    IF dep["name"] = <<"d","a","t","e","-","f","n","s">>
    THEN <<"**Date Utilities**: date-fns">>
    ELSE IF dep["name"] = <<"d","a","y","j","s">>
    THEN <<"**Date Utilities**: Day.js">>
    ELSE <<>>

key_lib_charts(dep) == <<"**Charts**: " \o Str(dep["name"])>>

key_lib_notifications(dep) ==
    IF dep["name"] = <<"s","o","n","n","e","r">>
    THEN <<"**Notifications**: Sonner (toast)">>
    ELSE <<"**Notifications**: " \o Str(dep["name"])>>

key_lib_theme(dep) ==
    IF dep["name"] = <<"n","e","x","t","-","t","h","e","m","e","s">>
    THEN <<"**Theming**: next-themes">>
    ELSE <<>>

key_libs_of(categorized) ==
    FlatMap(key_lib_forms, Category(categorized, "Forms"))
    \o FlatMap(key_lib_state, Category(categorized, "State"))
    \o FlatMap(key_lib_fetching, Category(categorized, "Data Fetching"))
    \o FlatMap(key_lib_utilities, Category(categorized, "Utilities"))
    \o FlatMap(key_lib_charts, Category(categorized, "Charts"))
    \o FlatMap(key_lib_notifications, Category(categorized, "Notifications"))
    \o FlatMap(key_lib_theme, Category(categorized, "Theme"))

\* mutant: the heading is written whether or not a library was recognised
tech_key_libs_lines_unguarded(categorized) ==
    LET key_libs == key_libs_of(categorized)
    IN  <<LN("## Key Libraries")>>
        \o [i \in 1..Len(key_libs) |-> L("- " \o key_libs[i])]
        \o <<L("")>>

tech_key_libs_lines(categorized) ==
    LET key_libs == key_libs_of(categorized)
    IN  IF key_libs # <<>>
        THEN <<LN("## Key Libraries")>>
             \o [i \in 1..Len(key_libs) |-> L("- " \o key_libs[i])]
             \o <<L("")>>
        ELSE <<>>

tech_scripts_lines(scripts) ==
    IF DOMAIN scripts # {}
    THEN <<LN("## Development Commands"), L(BQ \o BQ \o BQ \o "bash")>>
         \o (IF "dev" \in DOMAIN scripts
             THEN <<L("npm run dev       # Start development server")>> ELSE <<>>)
         \o (IF "build" \in DOMAIN scripts
             THEN <<L("npm run build     # Build for production")>> ELSE <<>>)
         \o (IF "start" \in DOMAIN scripts
             THEN <<L("npm run start     # Start production server")>> ELSE <<>>)
         \o (IF "lint" \in DOMAIN scripts
             THEN <<L("npm run lint      # Run linter")>> ELSE <<>>)
         \o (IF "test" \in DOMAIN scripts
             THEN <<L("npm run test      # Run tests")>> ELSE <<>>)
         \o <<LN(BQ \o BQ \o BQ)>>
    ELSE <<>>

tech_env_row(v) ==
    <<L("| " \o BQ \o Str(v) \o BQ \o " | " \o _get_env_var_description(v) \o " |")>>

tech_env_lines(env_vars) ==
    IF env_vars # <<>>
    THEN <<LN("## Environment Variables"),
           LN("Required environment variables (" \o BQ \o ".env.local" \o BQ \o "):"),
           L("| Variable | Description |"),
           L("|----------|-------------|")>>
         \o FlatMap(tech_env_row, env_vars)
         \o <<L("")>>
    ELSE <<>>

tech_constraints_lines(framework, has_tailwind) ==
    <<LN("## Technical Constraints"),
      LN("When generating code, follow these constraints:")>>
    \o (IF framework \in {"nextjs", "nextjs-pages"}
        THEN <<L("- Use Server Components by default, Client Components only when needed"),
               L("- Prefer Server Actions for mutations"),
               L("- Use " \o BQ \o "next/image" \o BQ \o " for images, " \o BQ \o "next/link" \o BQ \o " for navigation")>>
        ELSE <<>>)
    \o (IF has_tailwind
        THEN <<L("- Use Tailwind CSS classes, avoid inline styles")>>
        ELSE <<>>)
    \o <<L("- Follow TypeScript strict mode"), L("")>>

generate_tech_md(deep_analysis) ==
    LET framework   == Get(deep_analysis, "framework", "unknown")
        categorized == categorized_of(deep_analysis)
        scripts     == Get(deep_analysis, "scripts", NoDict)
        env_vars    == Get(deep_analysis, "envVars", <<>>)
        lines       == tech_framework_lines(framework)
                       \o tech_database_lines(categorized)
                       \o tech_ui_lines(categorized)
                       \o tech_key_libs_lines(categorized)
                       \o tech_scripts_lines(scripts)
                       \o tech_env_lines(env_vars)
                       \o tech_constraints_lines(framework, has_tailwind_local(categorized))
    IN  Join(NL, lines)

\* the subscripts dep["name"] of generate_tech_md raise KeyError on a
\* descriptor without a name (the Database loop reads it with .get)
NamedCategories ==
    { "UI & Styling", "Forms", "State", "Data Fetching", "Utilities", "Charts",
      "Notifications", "Theme" }

\* mutant: the Database loop subscripts dep["purpose"] as well
tech_md_raises_on_purpose(deep_analysis) ==
    LET categorized == categorized_of(deep_analysis)
        database    == Category(categorized, "Database")
        unnamed(seq) == \E i \in 1..Len(seq) : "name" \notin DOMAIN seq[i]
    IN  \/ \E cat \in NamedCategories : unnamed(Category(categorized, cat))
        \/ /\ Category(categorized, "UI & Styling") # <<>>
           /\ unnamed(Category(categorized, "Other"))
        \/ \E i \in 1..Len(database) : "purpose" \notin DOMAIN database[i]

tech_md_raises(deep_analysis) ==
    LET categorized == categorized_of(deep_analysis)
        unnamed(seq) == \E i \in 1..Len(seq) : "name" \notin DOMAIN seq[i]
    IN  \/ \E cat \in NamedCategories : unnamed(Category(categorized, cat))
        \/ /\ Category(categorized, "UI & Styling") # <<>>
           /\ unnamed(Category(categorized, "Other"))

-----------------------------------------------------------------------------
(* generate_structure_md.  The directory trees are the source's, with the    *)
(* box-drawing characters written in ASCII.                                  *)

structure_nextjs ==
    <<BQ \o BQ \o BQ,
      "|-- app/                    # Next.js App Router",
      "|   |-- api/               # API routes (Route Handlers)",
      "|   |-- layout.tsx         # Root layout with providers",
      "|   |-- page.tsx           # Main entry point",
      "|   +-- globals.css        # Global styles & Tailwind",
      "|",
      "|-- components/            # React components",
      "|   |-- ui/               # shadcn/ui primitives",
      "|   +-- *.tsx             # Feature components",
      "|",
      "|-- hooks/                 # Custom React hooks",
      "|",
      "|-- lib/                   # Utilities and core logic",
      "|   |-- types.ts          # TypeScript interfaces",
      "|   +-- utils.ts          # Utility functions",
      "|",
      "+-- public/               # Static assets",
      BQ \o BQ \o BQ>>

structure_laravel ==
    <<BQ \o BQ \o BQ,
      "|-- app/",
      "|   |-- Http/",
      "|   |   |-- Controllers/   # Request handlers",
      "|   |   +-- Middleware/    # HTTP middleware",
      "|   +-- Models/            # Eloquent models",
      "|",
      "|-- config/                # Configuration files",
      "|",
      "|-- database/",
      "|   +-- migrations/        # Database migrations",
      "|",
      "|-- resources/views/       # Blade templates",
      "|",
      "|-- routes/",
      "|   |-- web.php           # Web routes",
      "|   +-- api.php           # API routes",
      "|",
      "+-- public/               # Public assets",
      BQ \o BQ \o BQ>>

structure_react ==
    <<BQ \o BQ \o BQ,
      "|-- src/",
      "|   |-- components/        # React components",
      "|   |-- hooks/            # Custom hooks",
      "|   |-- store/            # State management",
      "|   |-- api/              # API services",
      "|   |-- types/            # TypeScript types",
      "|   +-- App.tsx           # Root component",
      "|",
      "|-- public/               # Static assets",
      "+-- vite.config.ts        # Vite configuration",
      BQ \o BQ \o BQ>>

structure_vue ==
    <<BQ \o BQ \o BQ,
      "|-- src/",
      "|   |-- components/        # Vue components",
      "|   |-- composables/      # Composition API hooks",
      "|   |-- stores/           # Pinia stores",
      "|   |-- router/           # Vue Router config",
      "|   |-- types/            # TypeScript types",
      "|   +-- App.vue           # Root component",
      "|",
      "|-- public/               # Static assets",
      "+-- vite.config.ts        # Vite configuration",
      BQ \o BQ \o BQ>>

structure_nuxt ==
    <<BQ \o BQ \o BQ,
      "|-- pages/                 # File-based routing",
      "|-- components/            # Auto-imported components",
      "|-- composables/          # Auto-imported composables",
      "|-- server/",
      "|   +-- api/              # Server API routes",
      "|-- public/               # Static assets",
      "+-- nuxt.config.ts        # Nuxt configuration",
      BQ \o BQ \o BQ>>

\* structures.get(framework, <placeholder>)
structures(framework) ==
    CASE framework = "nextjs"  -> structure_nextjs
      [] framework = "laravel" -> structure_laravel
      [] framework = "react"   -> structure_react
      [] framework = "vue"     -> structure_vue
      [] framework = "nuxt"    -> structure_nuxt
      [] OTHER -> <<BQ \o BQ \o BQ, "# Project structure", BQ \o BQ \o BQ>>

structure_pattern_lines(patterns, key, heading) ==
    IF Get(patterns, key, "") # ""
    THEN <<L(heading), L("- " \o patterns[key]), L("")>>
    ELSE <<>>

structure_patterns_lines(patterns) ==
    IF \E k \in DOMAIN patterns : patterns[k] # ""
    THEN <<<<"", "## Architecture Patterns", "">>>>
         \o structure_pattern_lines(patterns, "stateManagement", "### State Management")
         \o structure_pattern_lines(patterns, "componentPattern", "### Component Patterns")
         \o structure_pattern_lines(patterns, "apiPattern", "### API Pattern")
         \o structure_pattern_lines(patterns, "styling", "### Styling")
    ELSE <<>>

generate_structure_md(deep_analysis) ==
    LET framework == Get(deep_analysis, "framework", "unknown")
        patterns  == Get(deep_analysis, "architecturePatterns", NoDict)
        lines     == <<LN("# Project Structure"), structures(framework), L("")>>
                     \o structure_patterns_lines(patterns)
    IN  Join(NL, lines)

-----------------------------------------------------------------------------
(* generate_product_md *)

\* seq[:n]
Take(seq, n) == SubSeq(seq, 1, IF Len(seq) < n THEN Len(seq) ELSE n)

\* the 6 of entities[:6]
ProductEntityLimit == 6

product_title_lines(readme) ==
    LET title == Get(readme, "title", <<>>)
    IN  IF title # <<>> /\ ~Contains(Lower(title), <<"d","e","p","l","o","y">>)
        THEN <<LN(Str(title))>>
        ELSE <<>>

product_description_lines(readme) ==
    IF Get(readme, "description", "") # ""
    THEN <<L(readme["description"]), L("")>>
    ELSE <<>>

product_features_lines(readme) ==
    LET features == Get(readme, "features", <<>>)
    IN  IF features # <<>>
        THEN <<LN("## Features")>>
             \o [i \in 1..Len(features) |-> L("- " \o features[i])]
             \o <<L("")>>
        ELSE <<>>

product_entity(entity) ==
    LET name == Get(entity, "name", "")
        desc == Get(entity, "description", "")
    IN  IF name # ""
        THEN IF desc # ""
             THEN <<L("- **" \o name \o "**: " \o desc)>>
             ELSE <<L("- **" \o name \o "**")>>
        ELSE <<>>

product_entities_lines(entities) ==
    IF entities # <<>>
    THEN <<LN("## Core Entities")>>
         \o FlatMap(product_entity, Take(entities, ProductEntityLimit))
         \o <<L("")>>
    ELSE <<>>

generate_product_md(deep_analysis) ==
    LET readme   == Get(deep_analysis, "readme", NoDict)
        entities == Get(deep_analysis, "entities", <<>>)
        lines    == <<LN("# Product Overview")>>
                    \o product_title_lines(readme)
                    \o product_description_lines(readme)
                    \o product_features_lines(readme)
                    \o product_entities_lines(entities)
    IN  Join(NL, lines)

-----------------------------------------------------------------------------
(* generate_business_rules_md *)

\* the 5 of entities[:5]
RulesEntityLimit == 5

\* the 10 of fields[:10]
FieldLimit == 10

\* the 30 of [:30]
TypeWidth == 30

\* s.split("\n")[0]
FirstLine(s) ==
    LET ends == { i \in 1..Len(s) : s[i] = "\n" }
    IN  IF ends = {} THEN s
        ELSE SubSeq(s, 1, (CHOOSE i \in ends : \A j \in ends : i <= j) - 1)

rules_enum(enum) ==
    <<L("### " \o enum["name"])>>
    \o [i \in 1..Len(enum["values"]) |-> L("- " \o BQ \o enum["values"][i] \o BQ)]
    \o <<L("")>>

\* mutant: a repeated enum is rendered once
rules_enums_lines_deduplicated(status_enums) ==
    LET firsts == SelectSeq([i \in 1..Len(status_enums) |-> <<i, status_enums[i]>>],
                            LAMBDA p : \A j \in 1..(p[1] - 1) : status_enums[j] # p[2])
    IN  IF status_enums # <<>>
        THEN <<LN("## Status Values")>>
             \o FlatMap(rules_enum, [i \in 1..Len(firsts) |-> firsts[i][2]])
        ELSE <<>>

rules_enums_lines(status_enums) ==
    IF status_enums # <<>>
    THEN <<LN("## Status Values")>> \o FlatMap(rules_enum, status_enums)
    ELSE <<>>

rules_field(field) ==
    LET fname    == Get(field, "name", "")
        ftype    == Take(FirstLine(Get(field, "type", <<>>)), TypeWidth)
        required == IF Get(field, "optional", FALSE) THEN "No" ELSE "Yes"
    IN  <<L("| " \o fname \o " | " \o BQ \o Str(ftype) \o BQ \o " | " \o required \o " |")>>

rules_entity(entity) ==
    LET name   == Get(entity, "name", "")
        fields == Get(entity, "fields", <<>>)
    IN  IF name # "" /\ fields # <<>>
        THEN <<LN("### " \o name),
               L("| Field | Type | Required |"),
               L("|-------|------|----------|")>>
             \o FlatMap(rules_field, Take(fields, FieldLimit))
             \o <<L("")>>
        ELSE <<>>

\* mutant: the entity limit of the product document is applied
rules_entities_lines_six(entities) ==
    IF entities # <<>>
    THEN <<LN("## Data Entities")>>
         \o FlatMap(rules_entity, Take(entities, ProductEntityLimit))
    ELSE <<>>

rules_entities_lines(entities) ==
    IF entities # <<>>
    THEN <<LN("## Data Entities")>>
         \o FlatMap(rules_entity, Take(entities, RulesEntityLimit))
    ELSE <<>>

generate_business_rules_md(deep_analysis) ==
    LET entities     == Get(deep_analysis, "entities", <<>>)
        status_enums == Get(deep_analysis, "statusEnums", <<>>)
        lines        == <<LN("# Business Rules")>>
                        \o rules_enums_lines(status_enums)
                        \o rules_entities_lines(entities)
    IN  Join(NL, lines)

\* the subscripts enum["name"] and enum["values"] raise KeyError on an enum
\* without them
business_rules_md_raises(deep_analysis) ==
    LET status_enums == Get(deep_analysis, "statusEnums", <<>>)
    IN  \E i \in 1..Len(status_enums) :
            {"name", "values"} \ DOMAIN status_enums[i] # {}

-----------------------------------------------------------------------------
(* IDE_CONFIGS, the wrappers and generate_steering_docs_deep *)

registered_formats ==
    {"kiro", "cursor", "copilot", "windsurf", "cline", "aider", "markdown"}

\* IDE_CONFIGS[id] (the description strings are not modelled)
IDE_CONFIGS(id) ==
    CASE id = "kiro"     -> [path |-> ".kiro/steering/", multiple_files |-> TRUE,
                             files |-> <<"product.md", "tech.md", "structure.md">>]
      [] id = "cursor"   -> [path |-> ".cursor/rules/", filename |-> "project.mdc",
                             multiple_files |-> FALSE]
      [] id = "copilot"  -> [path |-> ".github/", filename |-> "copilot-instructions.md",
                             multiple_files |-> FALSE]
      [] id = "windsurf" -> [path |-> "", filename |-> ".windsurfrules",
                             multiple_files |-> FALSE]
      [] id = "cline"    -> [path |-> "", filename |-> ".clinerules",
                             multiple_files |-> FALSE]
      [] id = "aider"    -> [path |-> "", filename |-> "CONVENTIONS.md",
                             multiple_files |-> FALSE]
      [] id = "markdown" -> [path |-> "", filename |-> "STEERING.md",
                             multiple_files |-> FALSE]

\* mutant: an unknown id is given the configuration of the default format
config_of_default_kiro(output_format_) ==
    IF output_format_ \in registered_formats
    THEN IDE_CONFIGS(output_format_)
    ELSE IDE_CONFIGS("kiro")

\* IDE_CONFIGS.get(output_format_, IDE_CONFIGS["markdown"])
config_of(output_format_) ==
    IF output_format_ \in registered_formats
    THEN IDE_CONFIGS(output_format_)
    ELSE IDE_CONFIGS("markdown")

\* mutant: the content is stripped of its trailing blank lines before wrapping
_wrap_kiro_format_stripped(content) ==
    LET last == CHOOSE k \in 0..Len(content) :
                    /\ k = 0 \/ content[k] # ""
                    /\ \A j \in (k + 1)..Len(content) : content[j] = ""
    IN  Cat(<<"---", "inclusion: always", "---", "">>,
            IF last = 0 THEN <<"">> ELSE SubSeq(content, 1, last))

_wrap_kiro_format(content) ==
    Cat(<<"---", "inclusion: always", "---", "">>, content)

_wrap_cursor_format(content, description) ==
    Cat(<<"---", "description: " \o description, "alwaysApply: true", "---", "">>,
        content)

\* the keys of docs, in insertion order
doc_names == <<"tech.md", "structure.md", "product.md", "business-rules.md">>

\* docs[name]
docs_of(deep_analysis, name) ==
    CASE name = "tech.md"           -> generate_tech_md(deep_analysis)
      [] name = "structure.md"      -> generate_structure_md(deep_analysis)
      [] name = "product.md"        -> generate_product_md(deep_analysis)
      [] name = "business-rules.md" -> generate_business_rules_md(deep_analysis)

\* the string "\n\n---\n\n"
separator == <<"", "", "---", "", "">>

\* mutant: only the files the kiro registry entry lists are written
kiro_names_from_config == IDE_CONFIGS("kiro")["files"]

\* the names the kiro branch iterates over: docs.items()
kiro_names == doc_names

\* mutant: the documents are joined in the order the kiro entry lists them
combined_names_product_first ==
    <<"product.md", "tech.md", "structure.md", "business-rules.md">>

\* the order of docs.values() in the single-file branch
combined_names == doc_names

generate_steering_docs_deep(deep_analysis, output_format_) ==
    LET framework == Get(deep_analysis, "framework", "unknown")
        config    == config_of(output_format_)
        combined  == Join(separator,
                          [i \in 1..Len(combined_names) |->
                              docs_of(deep_analysis, combined_names[i])])
    IN  IF output_format_ = "kiro"
        THEN [p \in { config["path"] \o kiro_names[i] : i \in 1..Len(kiro_names) } |->
                 LET name == CHOOSE n \in { kiro_names[i] : i \in 1..Len(kiro_names) } :
                                 config["path"] \o n = p
                 IN  _wrap_kiro_format(docs_of(deep_analysis, name))]
        ELSE IF output_format_ = "cursor"
        THEN (config["path"] \o config["filename"]) :>
                 _wrap_cursor_format(combined,
                     "Steering rules for " \o FRAMEWORK_NAMES(framework) \o " project")
        ELSE (Get(config, "path", "") \o Get(config, "filename", "STEERING.md")) :>
                 combined

\* the derivers run first, so their KeyError is the generator's
steering_docs_deep_raises(deep_analysis) ==
    tech_md_raises(deep_analysis) \/ business_rules_md_raises(deep_analysis)

-----------------------------------------------------------------------------
(* generate_steering_docs, and the tools of server.py *)

\* the dict handed to generate_steering_docs_deep on the fallback path: the
\* collaborator's result with framework, scripts, envVars, components set
fallback_record(analysis_, deep_) ==
    [k \in DOMAIN deep_ \cup {"framework", "scripts", "envVars", "components"} |->
        CASE k = "framework"  -> Get(analysis_, "framework", "unknown")
          [] k = "scripts"    -> Get(analysis_, "scripts", NoDict)
          [] k = "envVars"    -> Get(analysis_, "envVars", <<>>)
          [] k = "components" -> Get(analysis_, "components", <<>>)
          [] OTHER            -> deep_[k]]

generate_steering_docs(analysis_, deep_, output_format_) ==
    IF "categorizedDependencies" \in DOMAIN analysis_
    THEN generate_steering_docs_deep(analysis_, output_format_)
    ELSE generate_steering_docs_deep(fallback_record(analysis_, deep_), output_format_)

steering_docs_raises(analysis_, deep_) ==
    IF "categorizedDependencies" \in DOMAIN analysis_
    THEN steering_docs_deep_raises(analysis_)
    ELSE steering_docs_deep_raises(fallback_record(analysis_, deep_))

\* the dict deep_analyze_project returns (stats and projectPath are copied
\* from the basic analysis and read by no deriver)
deep_analyze_project(framework_, basic_analysis, deep_analysis) ==
    [framework               |-> framework_,
     scripts                 |-> Get(basic_analysis, "scripts", NoDict),
     envVars                 |-> Get(basic_analysis, "envVars", <<>>),
     components              |-> Get(basic_analysis, "components", <<>>),
     categorizedDependencies |-> Get(deep_analysis, "categorizedDeps", NoDict),
     readme                  |-> Get(deep_analysis, "readme", NoDict),
     architecturePatterns    |-> Get(deep_analysis, "patterns", NoDict),
     codeSnippets            |-> Get(deep_analysis, "codeSnippets", NoDict),
     entities                |-> Get(deep_analysis, "entities", <<>>),
     statusEnums             |-> Get(deep_analysis, "statusEnums", <<>>)]

\* mutant: an invalid output_format is kept as it is
validated_format_unchecked(output_format_) == output_format_

\* "Validate output format"
validated_format(output_format_) ==
    IF output_format_ \notin registered_formats THEN "kiro" ELSE output_format_

\* generate_steering, after analyze_codebase has returned analysis_
generate_steering(framework_, analysis_, deep_, output_format_) ==
    [framework    |-> framework_,
     outputFormat |-> validated_format(output_format_),
     files        |-> generate_steering_docs(analysis_, deep_,
                                             validated_format(output_format_)),
     analysis     |-> [typesFound      |-> Len(Get(analysis_, "types", <<>>)),
                       modelsFound     |-> Len(Get(analysis_, "models", <<>>)),
                       routesFound     |-> Len(Get(analysis_, "routes", <<>>)),
                       componentsFound |-> Len(Get(analysis_, "components", <<>>)),
                       envVarsFound    |-> Len(Get(analysis_, "envVars", <<>>))]]

-----------------------------------------------------------------------------
(* Inputs: environment-variable names *)

\* a name is the concatenation of at most MaxFragments fragments
MaxFragments == 3

NameFragments ==
    { W_SUPABASE, W_URL, W_ANON, W_SERVICE, W_DATABASE, W_DB_, W_API_KEY,
      W_APIKEY, W_SECRET,
      <<"s","u","p","a","b","a","s","e">>, <<"s","e","c","r","e","t">>,
      <<"S","T","R","I","P","E","_">>, <<"_","K","E","Y">>, <<"_">>, <<"X">> }

RECURSIVE NamesOf(_)
NamesOf(n) ==
    IF n = 0 THEN { <<>> }
    ELSE NamesOf(n - 1) \cup { a \o f : a \in NamesOf(n - 1), f \in NameFragments }

VarNames == NamesOf(MaxFragments) \cup descriptionKeys

-----------------------------------------------------------------------------
(* Inputs: analysis records *)

Dep(name) == [name |-> name]
DepP(name, purpose) == [name |-> name, purpose |-> purpose]

N_tailwindcss == <<"t","a","i","l","w","i","n","d","c","s","s">>
N_TailwindCSS == <<"T","a","i","l","w","i","n","d","C","S","S">>
N_lucide      == <<"l","u","c","i","d","e","-","r","e","a","c","t">>
N_geist       == <<"g","e","i","s","t">>
N_supabase_js == <<"@","s","u","p","a","b","a","s","e","/","s","u","p","a","b","a","s","e","-","j","s">>
N_prisma      == <<"@","p","r","i","s","m","a","/","c","l","i","e","n","t">>
N_pg          == <<"p","g">>
N_mysql2      == <<"m","y","s","q","l","2">>
N_zod         == <<"z","o","d">>
N_rhf         == <<"r","e","a","c","t","-","h","o","o","k","-","f","o","r","m">>
N_zustand     == <<"z","u","s","t","a","n","d">>
N_swr         == <<"s","w","r">>
N_date_fns    == <<"d","a","t","e","-","f","n","s">>
N_recharts    == <<"r","e","c","h","a","r","t","s">>
N_sonner      == <<"s","o","n","n","e","r">>
N_next_themes == <<"n","e","x","t","-","t","h","e","m","e","s">>

Digits == <<"1","2","3","4","5","6","7","8","9">>

\* the i-th Radix package, "@radix-ui/react-<i>"
N_radix(i) ==
    <<"@","r","a","d","i","x","-","u","i","/","r","e","a","c","t","-">> \o <<Digits[i]>>

\* n Radix packages
RadixDeps(n) == [i \in 1..n |-> Dep(N_radix(i))]

\* the largest number of Radix packages in a UI & Styling list
MaxRadix == 7

FullDatabase ==
    <<DepP(N_supabase_js, "Supabase client"), DepP(N_pg, "PostgreSQL client"),
      Dep(N_mysql2), DepP(N_mysql2, ""), Dep(N_prisma)>>

FullCategorized ==
    ("Database" :> FullDatabase)
    @@ ("UI & Styling" :> <<Dep(N_tailwindcss), Dep(N_radix(1)), Dep(N_lucide)>>)
    @@ ("Forms" :> <<Dep(N_zod), Dep(N_rhf)>>)
    @@ ("State" :> <<Dep(N_zustand)>>)
    @@ ("Data Fetching" :> <<Dep(N_swr)>>)
    @@ ("Utilities" :> <<Dep(N_date_fns)>>)
    @@ ("Charts" :> <<Dep(N_recharts)>>)
    @@ ("Notifications" :> <<Dep(N_sonner), Dep(N_recharts)>>)
    @@ ("Theme" :> <<Dep(N_next_themes)>>)
    @@ ("Other" :> <<Dep(N_geist)>>)

FullPatterns ==
    [stateManagement |-> "Zustand stores", componentPattern |-> "",
     styling |-> "Tailwind CSS with CSS variables"]

FullScripts == [dev |-> "next dev", build |-> "next build", test |-> "jest"]

FullEnvVars == <<DATABASE_URL, STRIPE_SECRET_KEY, W_SECRET \o <<"_">> \o W_URL>>

FullReadme ==
    [title |-> <<"M","y"," ","A","p","p">>, description |-> "Order tracking.",
     features |-> <<"Orders", "Invoices">>]

T_string == <<"s","t","r","i","n","g">>
T_union  == <<"s","t","r","i","n","g"," ","|","\n"," ","n","u","l","l">>

FullEntities ==
    <<[name |-> "Order", description |-> "A customer order",
       fields |-> <<[name |-> "id", type |-> T_string],
                    [name |-> "note", type |-> T_union, optional |-> TRUE],
                    [name |-> "total", type |-> T_string, optional |-> FALSE]>>],
      [name |-> "Customer"]>>

FullStatusEnums ==
    <<[name |-> "OrderStatus", values |-> <<"open", "paid">>]>>

TopFields ==
    { "framework", "categorizedDependencies", "architecturePatterns", "scripts",
      "envVars", "readme", "entities", "statusEnums" }

FullOf(k) ==
    CASE k = "framework"               -> "nextjs"
      [] k = "categorizedDependencies" -> FullCategorized
      [] k = "categorizedDeps"         -> FullCategorized
      [] k = "architecturePatterns"    -> FullPatterns
      [] k = "patterns"                -> FullPatterns
      [] k = "scripts"                 -> FullScripts
      [] k = "envVars"                 -> FullEnvVars
      [] k = "readme"                  -> FullReadme
      [] k = "entities"                -> FullEntities
      [] k = "statusEnums"             -> FullStatusEnums

EmptyOf(k) == IF k = "framework" THEN "" ELSE <<>>

\* the record in which each field is absent, empty or full as `choice` says
RecordOf(choice) ==
    [k \in { f \in DOMAIN choice : choice[f] # "absent" } |->
        IF choice[k] = "empty" THEN EmptyOf(k) ELSE FullOf(k)]

Presence == {"absent", "empty", "full"}

\* every subset of the top-level fields absent, empty or present
PresenceRecords == { RecordOf(c) : c \in [TopFields -> Presence] }

\* the two keys under which categorized dependencies are read
AliasRecords ==
    { RecordOf(c) :
        c \in [{"framework", "categorizedDependencies", "categorizedDeps",
                "scripts", "envVars"} -> Presence] }

\* UI & Styling lists: a Tailwind entry (or none) before or after n Radix entries
TailwindEntries == { <<>>, <<Dep(N_tailwindcss)>>, <<Dep(N_TailwindCSS)>> }

UILists ==
    { (IF first THEN tw ELSE <<>>) \o <<Dep(N_lucide)>> \o RadixDeps(n)
      \o (IF first THEN <<>> ELSE tw) :
        tw \in TailwindEntries, n \in 0..MaxRadix, first \in BOOLEAN }

UIRecords ==
    { (key :> (("UI & Styling" :> ui) @@ ("Other" :> <<Dep(N_geist)>>))) @@ fw :
        key \in {"categorizedDependencies", "categorizedDeps"},
        ui \in UILists,
        fw \in { NoDict, [framework |-> "nextjs"], [framework |-> "vue"] } }

\* README variants: each sub-field absent, empty or present
ReadmeRecords ==
    { [readme |->
        [k \in { f \in DOMAIN c : c[f] # "absent" } |->
            IF c[k] = "empty" THEN (IF k = "description" THEN "" ELSE <<>>)
            ELSE IF c[k] = "banner"
            THEN <<"D","e","p","l","o","y"," ","t","o"," ","V","e","r","c","e","l">>
            ELSE FullReadme[k]]] :
        c \in { d \in [{"title", "description", "features"} -> Presence \cup {"banner"}] :
                  d["description"] # "banner" /\ d["features"] # "banner" } }

\* architecturePatterns variants: each key absent, empty or present
PatternRecords ==
    { [architecturePatterns |->
        [k \in { f \in DOMAIN c : c[f] # "absent" } |->
            IF c[k] = "empty" THEN "" ELSE "Uses " \o k]] :
        c \in [{"stateManagement", "componentPattern", "apiPattern", "styling"}
               -> Presence] }

\* entity variants: description, fields and a field's type/optional absent or empty
FieldVariants ==
    { [name |-> "id"], [name |-> "id", type |-> <<>>], [name |-> "id", type |-> T_union],
      [name |-> "id", type |-> T_string, optional |-> TRUE],
      [name |-> "id", type |-> T_string, optional |-> FALSE], NoDict }

EntityVariants ==
    { [k \in { f \in DOMAIN c : c[f] # "absent" } |->
          CASE k = "name"        -> IF c[k] = "empty" THEN "" ELSE "Order"
            [] k = "description" -> IF c[k] = "empty" THEN "" ELSE "A customer order"
            [] k = "fields"      -> IF c[k] = "empty" THEN <<>> ELSE <<fld>>] :
        c \in [{"name", "description", "fields"} -> Presence], fld \in FieldVariants }

EntityRecords == { [entities |-> <<e, [name |-> "Customer"]>>] : e \in EntityVariants }

\* status-enum lists
MaxEnums == 2
MaxValues == 2

RECURSIVE SeqsUpTo(_, _)
SeqsUpTo(S, n) ==
    IF n = 0 THEN { <<>> }
    ELSE SeqsUpTo(S, n - 1) \cup { q \o <<x>> : q \in SeqsUpTo(S, n - 1), x \in S }

EnumChoices ==
    { [name |-> "OrderStatus", values |-> v] : v \in SeqsUpTo({"open", "paid"}, MaxValues) }
    \cup { [name |-> "Role", values |-> <<"admin">>] }

EnumRecords == { [statusEnums |-> q] : q \in SeqsUpTo(EnumChoices, MaxEnums) }

\* records that lack a key the code subscripts
MalformedRecords ==
    { [categorizedDependencies |-> ("UI & Styling" :> <<[purpose |-> "CSS"]>>)],
      [categorizedDependencies |-> ("Charts" :> <<Dep(N_recharts), NoDict>>)],
      [statusEnums |-> <<[name |-> "OrderStatus"]>>],
      [statusEnums |-> <<[values |-> <<"open">>]>>] }

\* the largest number of entities in a list, and of fields in an entity
MaxEntities == 6
MaxFields == 11

EntityNames ==
    <<"Order", "Customer", "Invoice", "Product", "Payment", "Shipment", "Refund",
      "Coupon">>

FieldNames ==
    <<"id", "name", "email", "status", "total", "note", "createdAt", "updatedAt",
      "ownerId", "currency", "dueDate", "discount", "archived">>

\* 25 characters
T_record == <<"R","e","c","o","r","d","<","s","t","r","i","n","g",","," ",
              "u","n","k","n","o","w","n",">","[","]">>

\* types of 30, 31 and 50 characters on one line, and one whose first line is
\* longer than 30 characters
T_30 == T_record \o <<" ","|"," ","i","d">>
T_31 == T_30 \o <<"s">>
T_50 == T_record \o T_record
T_lines == T_31 \o <<" ","|","\n"," "," ">> \o T_string

FieldTypes == <<T_string, T_union, T_30, T_31, T_50, T_lines, <<>>>>

\* the j-th field of the i-th entity: the types and the optional flag rotate
FieldAt(i, j) ==
    LET type == FieldTypes[((i + j) % Len(FieldTypes)) + 1]
        base == [name |-> FieldNames[j]]
               @@ (IF (i + j) % (Len(FieldTypes) + 1) = 0 THEN NoDict ELSE [type |-> type])
    IN  CASE j % 3 = 0 -> base @@ [optional |-> TRUE]
          [] j % 3 = 1 -> base
          [] OTHER     -> base @@ [optional |-> FALSE]

\* n entities of m fields each; the entity at `hole` (if any) has no fields, an
\* empty name, or one field only
EntityListRecords ==
    { [entities |->
        [i \in 1..n |->
            IF i # hole
            THEN [name |-> EntityNames[i], fields |-> [j \in 1..m |-> FieldAt(i, j)]]
            ELSE CASE kind = "nofields" -> [name |-> EntityNames[i]]
                   [] kind = "nofieldlist" -> [name |-> EntityNames[i], fields |-> <<>>]
                   [] kind = "noname"   ->
                          [name |-> "", fields |-> [j \in 1..m |-> FieldAt(i, j)]]
                   [] OTHER -> [name |-> EntityNames[i], fields |-> <<FieldAt(i, 1)>>]]] :
        n \in 1..MaxEntities, m \in 1..MaxFields, hole \in 0..MaxEntities,
        kind \in {"nofields", "nofieldlist", "noname", "onefield"} }

\* records of every framework id, alone or with fields the technology and
\* structure derivers read
FrameworkRecords ==
    { [framework |-> fw] @@ rest :
        fw \in FrameworkIds \cup {"unknown", "svelte"},
        rest \in { NoDict,
                   [architecturePatterns |-> FullPatterns],
                   [scripts |-> FullScripts, envVars |-> FullEnvVars],
                   [categorizedDependencies |-> FullCategorized],
                   [categorizedDependencies |-> ("UI & Styling" :> <<Dep(N_lucide)>>)],
                   [categorizedDependencies |-> ("UI & Styling" :> <<>>)],
                   [categorizedDependencies |-> ("Forms" :> <<Dep(N_tailwindcss)>>)],
                   [categorizedDeps |->
                       ("UI & Styling" :> (<<Dep(N_TailwindCSS)>> \o RadixDeps(6)))] } }

DeriverRecords ==
    PresenceRecords \cup AliasRecords \cup UIRecords \cup ReadmeRecords
    \cup PatternRecords \cup EntityRecords \cup EnumRecords \cup MalformedRecords
    \cup FrameworkRecords \cup EntityListRecords

-----------------------------------------------------------------------------
(* The description heuristic applied to a name *)

InitEnv ==
    /\ pc = "start"
    /\ var \in VarNames
    /\ analysis = NoDict
    /\ deep = NoDict
    /\ output_format = "kiro"
    /\ tool_framework = "unknown"
    /\ ret = <<>>
    /\ exc = "none"

DescribeEnvVar ==
    /\ pc = "start"
    /\ pc' = "env"
    /\ ret' = _get_env_var_description(var)
    /\ exc' = "none"
    /\ UNCHANGED <<var, analysis, deep, output_format, tool_framework>>

NextEnv == DescribeEnvVar

SpecEnv == InitEnv /\ [][NextEnv]_vars

-----------------------------------------------------------------------------
(* The four derivers applied to a record *)

InitDerive ==
    /\ pc = "start"
    /\ var = <<>>
    /\ analysis \in DeriverRecords
    /\ deep = NoDict
    /\ output_format = "kiro"
    /\ tool_framework = "unknown"
    /\ ret = <<>>
    /\ exc = "none"

TechMd ==
    /\ pc = "start"
    /\ pc' = "tech"
    /\ exc' = IF tech_md_raises(analysis) THEN "KeyError" ELSE "none"
    /\ ret' = IF tech_md_raises(analysis) THEN <<>> ELSE generate_tech_md(analysis)
    /\ UNCHANGED <<var, analysis, deep, output_format, tool_framework>>

StructureMd ==
    /\ pc = "start"
    /\ pc' = "structure"
    /\ exc' = "none"
    /\ ret' = generate_structure_md(analysis)
    /\ UNCHANGED <<var, analysis, deep, output_format, tool_framework>>

ProductMd ==
    /\ pc = "start"
    /\ pc' = "product"
    /\ exc' = "none"
    /\ ret' = generate_product_md(analysis)
    /\ UNCHANGED <<var, analysis, deep, output_format, tool_framework>>

BusinessRulesMd ==
    /\ pc = "start"
    /\ pc' = "business-rules"
    /\ exc' = IF business_rules_md_raises(analysis) THEN "KeyError" ELSE "none"
    /\ ret' = IF business_rules_md_raises(analysis) THEN <<>>
              ELSE generate_business_rules_md(analysis)
    /\ UNCHANGED <<var, analysis, deep, output_format, tool_framework>>

NextDerive == TechMd \/ StructureMd \/ ProductMd \/ BusinessRulesMd

SpecDerive == InitDerive /\ [][NextDerive]_vars

-----------------------------------------------------------------------------
(* The generator and the server tools applied to an analysis *)

\* what analyze_codebase may return: no categorizedDependencies key
BasicAnalyses ==
    { RecordOf(c) : c \in [{"framework", "scripts", "envVars"} -> {"absent", "full"}] }

\* records of the deep shape
DeepRecords ==
    { RecordOf([k \in TopFields |-> "full"]),
      [RecordOf([k \in TopFields |-> "full"]) EXCEPT !["framework"] = "laravel"],
      [framework |-> "vue", categorizedDependencies |-> <<>>] }

\* what deep_analyze_codebase may return
DeepResults ==
    { RecordOf(c) :
        c \in { d \in [{"categorizedDeps", "patterns", "readme", "entities", "statusEnums"}
                       -> Presence] :
                  /\ d["categorizedDeps"] # "empty"
                  /\ d["readme"] # "empty"
                  /\ d["entities"] # "empty"
                  /\ d["statusEnums"] = d["entities"] } }

\* identifiers outside the registry
UnknownFormats == {"vscode", "", "KIRO"}

Init ==
    /\ pc = "start"
    /\ var = <<>>
    /\ analysis \in BasicAnalyses \cup DeepRecords
    /\ deep \in DeepResults
    /\ output_format \in registered_formats \cup UnknownFormats
    /\ tool_framework \in {"nextjs", "unknown"}
    /\ ret = <<>>
    /\ exc = "none"

GenerateSteeringDocsDeep ==
    /\ pc = "start"
    /\ pc' = "deep"
    /\ exc' = IF steering_docs_deep_raises(analysis) THEN "KeyError" ELSE "none"
    /\ ret' = IF steering_docs_deep_raises(analysis) THEN <<>>
              ELSE generate_steering_docs_deep(analysis, output_format)
    /\ UNCHANGED <<var, analysis, deep, output_format, tool_framework>>

GenerateSteeringDocs ==
    /\ pc = "start"
    /\ pc' = "docs"
    /\ exc' = IF steering_docs_raises(analysis, deep) THEN "KeyError" ELSE "none"
    /\ ret' = IF steering_docs_raises(analysis, deep) THEN <<>>
              ELSE generate_steering_docs(analysis, deep, output_format)
    /\ UNCHANGED <<var, analysis, deep, output_format, tool_framework>>

GenerateSteering ==
    /\ pc = "start"
    /\ pc' = "steering"
    /\ exc' = IF steering_docs_raises(analysis, deep) THEN "KeyError" ELSE "none"
    /\ ret' = IF steering_docs_raises(analysis, deep) THEN <<>>
              ELSE generate_steering(tool_framework, analysis, deep, output_format)
    /\ UNCHANGED <<var, analysis, deep, output_format, tool_framework>>

DeepAnalyzeProject ==
    /\ pc = "start"
    /\ pc' = "deep_analyze"
    /\ exc' = "none"
    /\ ret' = deep_analyze_project(tool_framework, analysis, deep)
    /\ UNCHANGED <<var, analysis, deep, output_format, tool_framework>>

Next ==
    \/ GenerateSteeringDocsDeep
    \/ GenerateSteeringDocs
    \/ GenerateSteering
    \/ DeepAnalyzeProject

Spec == Init /\ [][Next]_vars

-----------------------------------------------------------------------------
(* Properties *)

HasLine(doc, line) == \E i \in 1..Len(doc) : doc[i] = line

\* seq holds part as a run of consecutive lines
HasRun(doc, part) ==
    \E i \in 0..(Len(doc) - Len(part)) : SubSeq(doc, i + 1, i + Len(part)) = part

KiroFrontMatter == <<"---", "inclusion: always", "---">>

RuleLines == <<"", "---", "">>

\* the four bodies, in the fixed order, with the rule between consecutive ones
CombinedBody(rec) ==
    generate_tech_md(rec) \o RuleLines \o generate_structure_md(rec) \o RuleLines
    \o generate_product_md(rec) \o RuleLines \o generate_business_rules_md(rec)

C3_UnknownTargetIsMarkdown ==
    (pc = "deep" /\ output_format \notin registered_formats)
    => /\ exc = "none"
       /\ ret = generate_steering_docs_deep(analysis, "markdown")
       /\ DOMAIN ret = {"STEERING.md"}
       /\ ret["STEERING.md"] = CombinedBody(analysis)

C3_Witness ==
    /\ pc = "deep"
    /\ output_format = "vscode"
    /\ Get(analysis, "envVars", <<>>) # <<>>
    /\ DOMAIN ret = {"STEERING.md"}
    /\ ret["STEERING.md"][1] = "# Technology Stack"

C5_FallbackEqualsMergedRecord ==
    (pc = "docs" /\ exc = "none")
    => IF "categorizedDependencies" \in DOMAIN analysis
       THEN ret = generate_steering_docs_deep(analysis, output_format)
       ELSE ret = generate_steering_docs_deep(
                      deep_analyze_project(Get(analysis, "framework", "unknown"),
                                           analysis, deep),
                      output_format)

\* a text with its leading front-matter block (the lines from an opening "---"
\* through the next "---") removed
StripFrontMatter(text) ==
    IF text[1] # "---" \/ ~(\E i \in 2..Len(text) : text[i] = "---")
    THEN text
    ELSE LET close == CHOOSE i \in 2..Len(text) :
                          /\ text[i] = "---"
                          /\ \A j \in 2..(i - 1) : text[j] # "---"
         IN  SubSeq(text, close + 1, Len(text))

HasFrontMatter(text) == StripFrontMatter(text) # text

\* the bodies of the four kiro entries of rec, front-matter removed, joined in
\* the fixed order with the horizontal-rule separator
KiroBodiesJoined(rec) ==
    LET kiro == generate_steering_docs_deep(rec, "kiro")
    IN  Join(separator,
             [i \in 1..Len(doc_names) |->
                 StripFrontMatter(kiro[IDE_CONFIGS("kiro")["path"] \o doc_names[i]])])

\* C11: wrapping never alters a body: the bodies of the four kiro entries with
\* their front-matter removed, joined in the fixed order with the
\* horizontal-rule separator, are exactly the content of each unwrapped
\* single-file target and the cursor content with its front-matter removed;
\* cursor is the only single-file target whose content has a front-matter.
C11_WrappingKeepsBodies ==
    (pc = "deep" /\ exc = "none" /\ output_format \in registered_formats)
    => IF output_format = "kiro"
       THEN /\ \A p \in DOMAIN ret : HasFrontMatter(ret[p])
            /\ Join(separator,
                    [i \in 1..Len(doc_names) |->
                        StripFrontMatter(ret[IDE_CONFIGS("kiro")["path"] \o doc_names[i]])])
                 = generate_steering_docs_deep(analysis, "markdown")["STEERING.md"]
       ELSE \A p \in DOMAIN ret :
                IF output_format = "cursor"
                THEN /\ HasFrontMatter(ret[p])
                     /\ HasLine(SubSeq(ret[p], 1, 4), "alwaysApply: true")
                     /\ StripFrontMatter(ret[p]) = KiroBodiesJoined(analysis)
                ELSE /\ ~HasFrontMatter(ret[p])
                     /\ ret[p] = KiroBodiesJoined(analysis)

C11_Witness ==
    /\ pc = "deep"
    /\ exc = "none"
    /\ output_format = "cursor"
    /\ Get(analysis, "entities", <<>>) # <<>>
    /\ HasFrontMatter(ret[".cursor/rules/project.mdc"])
    /\ StripFrontMatter(ret[".cursor/rules/project.mdc"]) = KiroBodiesJoined(analysis)
    /\ HasLine(KiroBodiesJoined(analysis), "## Data Entities")

\* C6: _get_env_var_description is total and resolves a name by the first
\* applicable rule only: the exact table, then the case-insensitive substring
\* rules in their listed order, then "Required".
C6_FirstRuleOnly ==
    pc = "env" =>
        LET u == Upper(var)
            rules == << <<Contains(u, W_SUPABASE) /\ Contains(u, W_URL), "Supabase project URL">>,
                        <<Contains(u, W_SUPABASE) /\ Contains(u, W_ANON), "Supabase anonymous key">>,
                        <<Contains(u, W_SUPABASE) /\ Contains(u, W_SERVICE), "Supabase service role key">>,
                        <<Contains(u, W_DATABASE) \/ Contains(u, W_DB_), "Database connection">>,
                        <<Contains(u, W_API_KEY) \/ Contains(u, W_APIKEY), "API key">>,
                        <<Contains(u, W_SECRET), "Secret key">>,
                        <<Contains(u, W_URL), "Service URL">>,
                        <<TRUE, "Required">> >>
            first == CHOOSE i \in 1..Len(rules) :
                        rules[i][1] /\ \A j \in 1..(i - 1) : ~rules[j][1]
        IN  /\ exc = "none"
            /\ var \in descriptionKeys => ret = descriptions(var)
            /\ var \notin descriptionKeys => ret = rules[first][2]
            /\ var = STRIPE_SECRET_KEY => ret = "Stripe secret key"
            /\ (var \notin descriptionKeys /\ Contains(u, W_SECRET) /\ Contains(u, W_URL)
                  /\ \A j \in 1..5 : ~rules[j][1])
               => ret = "Secret key"

C6_Witness ==
    /\ pc = "env"
    /\ var = W_SECRET \o <<"_">> \o W_URL
    /\ ret = "Secret key"

\* the UI & Styling list the technology deriver reads
UiOf(rec) == Category(categorized_of(rec), "UI & Styling")

TailwindPresent(rec) ==
    \E i \in 1..Len(UiOf(rec)) :
        Contains(Lower(UiOf(rec)[i]["name"]), <<"t","a","i","l","w","i","n","d">>)

RadixEntries(rec) ==
    Cardinality({ i \in 1..Len(UiOf(rec)) :
        Contains(UiOf(rec)[i]["name"], <<"@","r","a","d","i","x","-","u","i">>) })

ComponentLibraryLine == "- **Component Library**: shadcn/ui (built on Radix UI)"
PrimitivesLine == "- **UI Primitives**: Radix UI"

\* C7: with a Tailwind dependency in UI & Styling and n @radix-ui entries
\* there, n > 5 gives the component-library line and no primitives line,
\* 1 <= n <= 5 gives the primitives line and no component-library line, and
\* the two never both appear.
C7_RadixBoundary ==
    (pc = "tech" /\ exc = "none" /\ TailwindPresent(analysis))
    => LET n == RadixEntries(analysis)
       IN  /\ n > 5 => HasLine(ret, ComponentLibraryLine) /\ ~HasLine(ret, PrimitivesLine)
           /\ (1 <= n /\ n <= 5)
                 => HasLine(ret, PrimitivesLine) /\ ~HasLine(ret, ComponentLibraryLine)
           /\ ~(HasLine(ret, PrimitivesLine) /\ HasLine(ret, ComponentLibraryLine))

C7_Witness ==
    /\ pc = "tech"
    /\ exc = "none"
    /\ TailwindPresent(analysis)
    /\ RadixEntries(analysis) = 6
    /\ HasLine(ret, ComponentLibraryLine)

TechSections == {"## Database & Backend", "## UI & Styling", "## Key Libraries"}

NoTechSection(doc) == \A h \in TechSections : ~HasLine(doc, h)

TechHeadingAndFramework(rec, doc) ==
    /\ doc[1] = "# Technology Stack"
    /\ HasLine(doc, "- **Framework**: "
                    \o FRAMEWORK_NAMES(Get(rec, "framework", "unknown")))

\* C8 as stated: with categorizedDependencies absent or empty, whatever the
\* other fields hold, the technology document has its heading and framework
\* line and none of the Database, UI and Key Libraries sections.
C8_NoCategorizedNoSections ==
    (pc = "tech" /\ exc = "none"
        /\ Get(analysis, "categorizedDependencies", <<>>) = <<>>)
    => TechHeadingAndFramework(analysis, ret) /\ NoTechSection(ret)

\* C8 as amended: with categorizedDependencies absent or empty and the legacy
\* key categorizedDeps absent or empty as well, the technology document has
\* its heading and framework line and none of the three sections.
C8_NoCategorizedNoAliasNoSections ==
    (pc = "tech" /\ exc = "none"
        /\ Get(analysis, "categorizedDependencies", <<>>) = <<>>
        /\ Get(analysis, "categorizedDeps", <<>>) = <<>>)
    => TechHeadingAndFramework(analysis, ret) /\ NoTechSection(ret)

C8_Witness ==
    /\ pc = "tech"
    /\ "categorizedDependencies" \in DOMAIN analysis
    /\ analysis["categorizedDependencies"] = <<>>
    /\ Get(analysis, "envVars", <<>>) # <<>>
    /\ Get(analysis, "framework", "") = "nextjs"
    /\ HasLine(ret, "- **Framework**: Next.js 15 (App Router)")
    /\ NoTechSection(ret)

\* the subsection headings and value bullets the status enums may produce
EnumMarks(enums) ==
    { "### " \o enums[i]["name"] : i \in 1..Len(enums) }
    \cup UNION { { "- " \o BQ \o enums[i]["values"][j] \o BQ :
                      j \in 1..Len(enums[i]["values"]) } : i \in 1..Len(enums) }

\* one heading per enum, each followed by one bullet per value, in input order
ExpectedEnumMarks(enums) ==
    LET one(e) == <<"### " \o e["name"]>>
                  \o [j \in 1..Len(e["values"]) |-> "- " \o BQ \o e["values"][j] \o BQ]
    IN  FlatMap(one, enums)

\* C9: generate_business_rules_md renders exactly one subsection per status
\* enum, in input order, each followed by exactly one bullet per listed value
\* in input order.
C9_OneSubsectionPerEnum ==
    (pc = "business-rules" /\ exc = "none")
    => LET enums  == Get(analysis, "statusEnums", <<>>)
           marked(line) == line \in EnumMarks(enums)
       IN  SelectSeq(ret, marked) = ExpectedEnumMarks(enums)

C9_Witness ==
    /\ pc = "business-rules"
    /\ Len(Get(analysis, "statusEnums", <<>>)) = 2
    /\ analysis["statusEnums"][1] = analysis["statusEnums"][2]
    /\ analysis["statusEnums"][1]["values"] = <<"paid", "paid">>
    /\ HasRun(ret, <<"### OrderStatus", "- 'paid'", "- 'paid'", "",
                     "### OrderStatus", "- 'paid'", "- 'paid'", "">>)

\* every descriptor carries the keys the code subscripts: a dependency its
\* name, a status enum its name and values
RequiredKeysPresent(rec) ==
    /\ \A key \in {"categorizedDependencies", "categorizedDeps"} :
         \A cat \in DOMAIN Get(rec, key, NoDict) :
           \A i \in 1..Len(rec[key][cat]) : "name" \in DOMAIN rec[key][cat][i]
    /\ \A i \in 1..Len(Get(rec, "statusEnums", <<>>)) :
         {"name", "values"} \subseteq DOMAIN rec["statusEnums"][i]

HeadingOf(deriver) ==
    CASE deriver = "tech"           -> "# Technology Stack"
      [] deriver = "structure"      -> "# Project Structure"
      [] deriver = "product"        -> "# Product Overview"
      [] deriver = "business-rules" -> "# Business Rules"

\* C10: whichever optional fields are absent or empty, each of the four
\* derivers returns a document without raising, and the document begins with
\* its heading line.
C10_DeriversDegradeGracefully ==
    (pc \in {"tech", "structure", "product", "business-rules"}
        /\ RequiredKeysPresent(analysis))
    => /\ exc = "none"
       /\ ret # <<>>
       /\ ret[1] = HeadingOf(pc)
       /\ ret[1] # ""

C10_Witness ==
    /\ pc = "tech"
    /\ "readme" \notin DOMAIN analysis
    /\ "scripts" \in DOMAIN analysis /\ analysis["scripts"] = <<>>
    /\ "categorizedDependencies" \in DOMAIN analysis
    /\ analysis["categorizedDependencies"] # <<>>
    /\ \E i \in 1..Len(analysis["categorizedDependencies"]["Database"]) :
          "purpose" \notin DOMAIN analysis["categorizedDependencies"]["Database"][i]
    /\ exc = "none"
    /\ ret[1] = "# Technology Stack"

\* the tree emitted when the table of generate_structure_md has no entry
PlaceholderTree == <<BQ \o BQ \o BQ, "# Project structure", BQ \o BQ \o BQ>>

\* the lines of the structure document between the heading and the blank line
\* that closes the tree
TreeOf(doc) ==
    LET close == CHOOSE i \in 4..Len(doc) :
                     /\ doc[i] = BQ \o BQ \o BQ
                     /\ \A j \in 4..(i - 1) : doc[j] # BQ \o BQ \o BQ
    IN  SubSeq(doc, 3, close)

\* C12: generate_structure_md emits a framework-specific directory tree for
\* every framework id that FRAMEWORK_NAMES maps to a display name (nextjs,
\* nextjs-pages, laravel, react, vue, nuxt), and the placeholder tree only
\* when the framework id is unrecognized or absent.
C12_TreeForEveryNamedFramework ==
    (pc = "structure" /\ exc = "none")
    => (TreeOf(ret) = PlaceholderTree
            <=> Get(analysis, "framework", "unknown") \notin FrameworkIds)

\* the document from its "## Data Entities" line on
EntitySection(doc) ==
    LET at == CHOOSE i \in 1..Len(doc) :
                  /\ doc[i] = "## Data Entities"
                  /\ \A j \in 1..(i - 1) : doc[j] # "## Data Entities"
    IN  SubSeq(doc, at, Len(doc))

\* the first line of a type cut to its first 30 characters: the longest prefix
\* of at most 30 characters that holds no line break
TypeCell(type) ==
    LET n == CHOOSE k \in 0..Len(type) :
                 /\ k <= 30
                 /\ \A j \in 1..k : type[j] # "\n"
                 /\ k = Len(type) \/ k = 30 \/ type[k + 1] = "\n"
    IN  Str(SubSeq(type, 1, n))

\* the table row of a field
ExpectedRow(field) ==
    "| " \o Get(field, "name", "") \o " | " \o BQ \o TypeCell(Get(field, "type", <<>>))
    \o BQ \o " | "
    \o (IF "optional" \in DOMAIN field /\ field["optional"] THEN "No" ELSE "Yes") \o " |"

\* the subsection of an entity: heading, table head, a row per field among the
\* first 10, blank line
ExpectedEntity(entity) ==
    LET fields == Get(entity, "fields", <<>>)
        shown  == IF Len(fields) > 10 THEN 10 ELSE Len(fields)
    IN  <<"### " \o Get(entity, "name", ""), "",
          "| Field | Type | Required |", "|-------|------|----------|">>
        \o [j \in 1..shown |-> ExpectedRow(fields[j])]
        \o <<"">>

\* an entity the business-rules document gives a subsection
Rendered(entity) ==
    Get(entity, "name", "") # "" /\ Get(entity, "fields", <<>>) # <<>>

FirstFive(entities) ==
    SubSeq(entities, 1, IF Len(entities) > 5 THEN 5 ELSE Len(entities))

\* C13 as stated: generate_business_rules_md renders one subsection per entity
\* among the first 5 entities and none for later ones, each with a table
\* holding one row per field among the first 10 in input order, the type cell
\* being the first line of the type cut to 30 characters and the Required
\* cell "No" exactly when the field is marked optional.
C13_SubsectionPerEntity ==
    (pc = "business-rules" /\ exc = "none" /\ Get(analysis, "entities", <<>>) # <<>>)
    => EntitySection(ret)
         = <<"## Data Entities", "">> \o FlatMap(ExpectedEntity, FirstFive(analysis["entities"]))

\* C13 as amended: generate_business_rules_md renders one subsection per
\* entity among the first 5 entities that has a non-empty name and at least
\* one field (none for the other entities, none for later ones), each with a
\* table holding one row per field among the first 10 in input order, the
\* type cell being the first line of the type cut to 30 characters and the
\* Required cell "No" exactly when the field is marked optional.
C13_SubsectionPerRenderedEntity ==
    (pc = "business-rules" /\ exc = "none" /\ Get(analysis, "entities", <<>>) # <<>>)
    => EntitySection(ret)
         = <<"## Data Entities", "">>
           \o FlatMap(ExpectedEntity, SelectSeq(FirstFive(analysis["entities"]), Rendered))

C13_Witness ==
    /\ pc = "business-rules"
    /\ exc = "none"
    /\ Len(Get(analysis, "entities", <<>>)) = 6
    /\ \A i \in 1..6 : i # 2 => Rendered(analysis["entities"][i])
    /\ ~Rendered(analysis["entities"][2])
    /\ Len(analysis["entities"][1]["fields"]) = 11
    /\ HasLine(ret, "### Payment")
    /\ ~HasLine(ret, "### Customer")
    /\ ~HasLine(ret, "### Shipment")
    /\ HasLine(ret, "| currency | " \o BQ \o "Record<string, unknown>[]Recor" \o BQ \o " | Yes |")
    /\ ~(\E i \in 1..Len(ret) : ret[i] = ExpectedRow(analysis["entities"][1]["fields"][11]))

\* the technology document from its "## Technical Constraints" line on
ConstraintsBlock(doc) ==
    LET at == CHOOSE i \in 1..Len(doc) :
                  /\ doc[i] = "## Technical Constraints"
                  /\ \A j \in 1..(i - 1) : doc[j] # "## Technical Constraints"
    IN  SubSeq(doc, at, Len(doc))

NextJsLines ==
    <<"- Use Server Components by default, Client Components only when needed",
      "- Prefer Server Actions for mutations",
      "- Use " \o BQ \o "next/image" \o BQ \o " for images, " \o BQ \o "next/link"
          \o BQ \o " for navigation">>

TailwindLine == "- Use Tailwind CSS classes, avoid inline styles"

StrictLine == "- Follow TypeScript strict mode"

\* the block as a function of the framework id and of the Tailwind detection
ExpectedConstraints(fw, tailwind) ==
    <<"## Technical Constraints", "", "When generating code, follow these constraints:", "">>
    \o (IF fw \in {"nextjs", "nextjs-pages"} THEN NextJsLines ELSE <<>>)
    \o (IF tailwind THEN <<TailwindLine>> ELSE <<>>)
    \o <<StrictLine, "">>

\* C14: the Technical Constraints block of generate_tech_md is emitted for
\* every input and is a function of only the framework id and of whether a
\* Tailwind dependency was detected in the UI & Styling scan: it always holds
\* the strict-typing line, holds the Tailwind line exactly when Tailwind was
\* detected (never when UI & Styling is absent or empty), and holds the three
\* Next.js lines exactly for the Next.js framework ids.
C14_ConstraintsDependOnFrameworkAndTailwind ==
    (pc = "tech" /\ exc = "none")
    => LET fw       == Get(analysis, "framework", "unknown")
           tailwind == UiOf(analysis) # <<>> /\ TailwindPresent(analysis)
           block    == ConstraintsBlock(ret)
       IN  /\ HasLine(ret, "## Technical Constraints")
           /\ block = ExpectedConstraints(fw, tailwind)
           /\ HasLine(block, StrictLine)
           /\ HasLine(block, TailwindLine) <=> tailwind
           /\ HasRun(block, NextJsLines) <=> fw \in {"nextjs", "nextjs-pages"}
           /\ UiOf(analysis) = <<>> => ~HasLine(block, TailwindLine)

C14_Witness ==
    /\ pc = "tech"
    /\ exc = "none"
    /\ Get(analysis, "framework", "unknown") = "nextjs-pages"
    /\ TailwindPresent(analysis)
    /\ ConstraintsBlock(ret) = ExpectedConstraints("nextjs-pages", TRUE)
    /\ HasLine(ret, TailwindLine)

CssFrameworkLine == "- **CSS Framework**: Tailwind CSS (utility-first)"

\* C15 as stated: with Tailwind present together with more than five
\* @radix-ui entries, the UI & Styling section carries the component-library
\* line in place of both the CSS Framework line and the UI Primitives line.
C15_ComponentLibraryReplacesBoth ==
    (pc = "tech" /\ exc = "none" /\ TailwindPresent(analysis)
        /\ RadixEntries(analysis) > 5)
    => /\ HasLine(ret, ComponentLibraryLine)
       /\ ~HasLine(ret, CssFrameworkLine)
       /\ ~HasLine(ret, PrimitivesLine)

\* C15 as amended: with Tailwind present together with more than five
\* @radix-ui entries, the UI & Styling section carries the component-library
\* line in place of the UI Primitives line only: the CSS Framework line is
\* still emitted, directly before the component-library line.
C15_ComponentLibraryReplacesPrimitives ==
    (pc = "tech" /\ exc = "none" /\ TailwindPresent(analysis)
        /\ RadixEntries(analysis) > 5)
    => /\ HasRun(ret, <<"## UI & Styling", "", CssFrameworkLine, ComponentLibraryLine>>)
       /\ ~HasLine(ret, PrimitivesLine)
       /\ Cardinality({ i \in 1..Len(ret) : ret[i] = ComponentLibraryLine }) = 1
       /\ Cardinality({ i \in 1..Len(ret) : ret[i] = CssFrameworkLine }) = 1

C15_Witness ==
    /\ pc = "tech"
    /\ exc = "none"
    /\ TailwindPresent(analysis)
    /\ RadixEntries(analysis) = 7
    /\ UiOf(analysis)[1]["name"] # N_tailwindcss
    /\ HasRun(ret, <<CssFrameworkLine, ComponentLibraryLine>>)

====
